---- MODULE Spec2Model ----
(***************************************************************************)
(* State-machine model of the SF2 synth plugin instance                    *)
(* (src/src/dsp/sf2_plugin.c): the soundfont catalog, the bank loader, the *)
(* preset list, the MIDI translator, the parameter surface and the render  *)
(* stage.  Every handler of the V2 API is one action; the handlers are     *)
(* operators over a record holding the fields of sf2_instance_t.           *)
(***************************************************************************)
EXTENDS Integers, Sequences, FiniteSets, TLC

(***************************************************************************)
(* Text.  C strings are sequences of byte codes.  File names and parameter *)
(* values are written as TLA+ strings; Bytes gives their bytes wherever    *)
(* the code looks at characters (strcasecmp, strrchr, atoi, atof).         *)
(***************************************************************************)
Bytes(t) ==
  CASE t = "Bass.sf2" -> <<66, 97, 115, 115, 46, 115, 102, 50>>
  [] t = "bass.sf2" -> <<98, 97, 115, 115, 46, 115, 102, 50>>
  [] t = "Lead.SF2" -> <<76, 101, 97, 100, 46, 83, 70, 50>>
  [] t = ".hid.sf2" -> <<46, 104, 105, 100, 46, 115, 102, 50>>
  [] t = "notes.txt" -> <<110, 111, 116, 101, 115, 46, 116, 120, 116>>
  [] t = ".sf2" -> <<46, 115, 102, 50>>
  [] t = "-99" -> <<45, 57, 57>>
  [] t = "-1" -> <<45, 49>>
  [] t = "0" -> <<48>>
  [] t = "1" -> <<49>>
  [] t = "2" -> <<50>>
  [] t = "3" -> <<51>>
  [] t = "4" -> <<52>>
  [] t = "99" -> <<57, 57>>
  [] t = "5.0" -> <<53, 46, 48>>
  [] t = "2.00" -> <<50, 46, 48, 48>>
  [] t = "1.234" -> <<49, 46, 50, 51, 52>>
  [] t = "abc" -> <<97, 98, 99>>
  [] t = "nan" -> <<110, 97, 110>>
  [] t = "" -> <<>>

IsUpper(c) == c >= 65 /\ c <= 90
IsDigit(c) == c >= 48 /\ c <= 57

\* tolower(3) in the C locale
ToLower(c) == IF IsUpper(c) THEN c + 32 ELSE c

\* The byte at 1-based position i of the NUL-terminated string b.
ByteAt(b, i) == IF i <= Len(b) THEN b[i] ELSE 0

\* strcasecmp(3): the difference of the first pair of lowercased bytes that differ.
RECURSIVE StrCaseCmpFrom(_, _, _)
StrCaseCmpFrom(a, b, i) ==
  LET ca == ToLower(ByteAt(a, i))
      cb == ToLower(ByteAt(b, i))
  IN IF ca # cb THEN ca - cb
     ELSE IF ca = 0 THEN 0
     ELSE StrCaseCmpFrom(a, b, i + 1)

strcasecmp(a, b) == StrCaseCmpFrom(a, b, 1)

\* strcmp(3): the difference of the first pair of bytes that differ.
RECURSIVE StrCmpFrom(_, _, _)
StrCmpFrom(a, b, i) ==
  IF ByteAt(a, i) # ByteAt(b, i) THEN ByteAt(a, i) - ByteAt(b, i)
  ELSE IF ByteAt(a, i) = 0 THEN 0
  ELSE StrCmpFrom(a, b, i + 1)

strcmp(a, b) == StrCmpFrom(a, b, 1)

\* strrchr(b, c): the 1-based position of the last byte c of b, 0 when there is none.
RECURSIVE StrRChrFrom(_, _, _)
StrRChrFrom(b, c, i) ==
  IF i = 0 THEN 0
  ELSE IF b[i] = c THEN i
  ELSE StrRChrFrom(b, c, i - 1)

strrchr(b, c) == StrRChrFrom(b, c, Len(b))

\* The digits of b from position i on, as a number: <<value, next position>>.
RECURSIVE DigitsFrom(_, _, _)
DigitsFrom(b, i, acc) ==
  IF i <= Len(b) /\ IsDigit(b[i])
  THEN DigitsFrom(b, i + 1, acc * 10 + (b[i] - 48))
  ELSE <<acc, i>>

RECURSIVE SkipSpaces(_, _)
SkipSpaces(b, i) ==
  IF i <= Len(b) /\ b[i] = 32 THEN SkipSpaces(b, i + 1) ELSE i

\* atoi(3): optional blanks, an optional sign, digits; 0 for text with no digits.
atoi(b) ==
  LET i0 == SkipSpaces(b, 1)
      neg == ByteAt(b, i0) = 45
      i1 == IF ByteAt(b, i0) \in {43, 45} THEN i0 + 1 ELSE i0
      d == DigitsFrom(b, i1, 0)
  IN IF neg THEN 0 - d[1] ELSE d[1]

\* Up to three fraction digits of b from position i on, in thousandths.
RECURSIVE FracFrom(_, _, _, _)
FracFrom(b, i, scale, acc) ==
  IF i <= Len(b) /\ IsDigit(b[i]) /\ scale > 0
  THEN FracFrom(b, i + 1, scale \div 10, acc + (b[i] - 48) * scale)
  ELSE acc

\* A float is held in thousandths.  NaN stands for the float that is not a
\* number: it is no count of thousandths, and every comparison with it is false.
NaN == -2147483647

\* The C comparisons a < b and a <= b of floats.
FloatLess(a, b) == a # NaN /\ b # NaN /\ a < b
FloatLessEq(a, b) == a # NaN /\ b # NaN /\ a <= b

\* atof(3): a decimal number with an optional sign and fraction, or "nan" in
\* any case; 0 for text that starts with neither.
atof(b) ==
  LET i0 == SkipSpaces(b, 1)
      neg == ByteAt(b, i0) = 45
      i1 == IF ByteAt(b, i0) \in {43, 45} THEN i0 + 1 ELSE i0
      d == DigitsFrom(b, i1, 0)
      fr == IF ByteAt(b, d[2]) = 46 THEN FracFrom(b, d[2] + 1, 100, 0) ELSE 0
      m == d[1] * 1000 + fr
  IN IF <<ToLower(ByteAt(b, i1)), ToLower(ByteAt(b, i1 + 1)), ToLower(ByteAt(b, i1 + 2))>>
          = <<110, 97, 110>>
     THEN NaN
     ELSE IF neg THEN 0 - m ELSE m

\* The C cast (int)f of a float that is a number: truncation toward zero.
IntCast(m) == IF m >= 0 THEN m \div 1000 ELSE 0 - ((0 - m) \div 1000)

RECURSIVE FmtNat(_)
FmtNat(n) ==
  IF n < 10 THEN <<48 + n>> ELSE FmtNat(n \div 10) \o <<48 + (n % 10)>>

\* printf("%d")
FmtInt(n) == IF n < 0 THEN <<45>> \o FmtNat(0 - n) ELSE FmtNat(n)

\* printf("%.2f"): a number rounded to hundredths, "nan" for NaN.
FmtFixed2(m) ==
  LET a == IF m < 0 THEN 0 - m ELSE m
      h == (a + 5) \div 10
      body == FmtNat(h \div 100) \o <<46, 48 + ((h \div 10) % 10), 48 + (h % 10)>>
  IN IF m = NaN THEN <<110, 97, 110>>
     ELSE IF m < 0 /\ h > 0 THEN <<45>> \o body ELSE body

(***************************************************************************)
(* Files.  A path is the sequence of its components, so that the text      *)
(* after the last '/' is its last component.                               *)
(***************************************************************************)
module_dir == <<"mod">>

\* snprintf(dir_path, "%s/soundfonts", module_dir)
SoundfontDir == module_dir \o <<"soundfonts">>

\* strrchr(path, '/') + 1, or the whole path when it holds no '/'
Basename(path) == path[Len(path)]

\* Soundfont files that may appear in, and vanish from, <module_dir>/soundfonts.
SfFiles == {"Bass.sf2", "bass.sf2", "Lead.SF2"}

\* Entries every existing soundfonts directory holds besides: a hidden file and
\* a file of another type.
OtherFiles == {".hid.sf2", "notes.txt"}

\* Bank files outside the catalog directory.
ExtPad == <<"", "ext", "pad.sf2">>
ExtEmpty == <<"", "ext", "empty.sf2">>

NoName == "(null)"

\* The number of presets of the largest bank file.
MaxBankPresets == 3

\* printf("%d") of a small number, as a TLA+ string.
Digit(n) ==
  CASE n = 0 -> "0" [] n = 1 -> "1" [] n = 2 -> "2" [] n = 3 -> "3" [] n = 4 -> "4"
    [] n = 5 -> "5" [] n = 6 -> "6" [] n = 7 -> "7" [] n = 8 -> "8" [] n = 9 -> "9"

RECURSIVE NatText(_)
NatText(n) == IF n < 10 THEN Digit(n) ELSE NatText(n \div 10) \o Digit(n % 10)

\* What the engine's preset iteration yields for each bank file that parses:
\* name (NoName: no get_name), has_num (get_banknum and get_num present), bank, num.
BankPresets(file) ==
  CASE file = "Bass.sf2" ->
         [k \in 1..MaxBankPresets |->
            [name |-> "Bass " \o NatText(k - 1), has_num |-> TRUE,
             bank |-> IF k = MaxBankPresets THEN 128 ELSE 0, num |-> 8 * (k - 1)]]
    [] file = "Lead.SF2" ->
         << [name |-> "Saw", has_num |-> TRUE, bank |-> 0, num |-> 81],
            [name |-> "Square", has_num |-> TRUE, bank |-> 0, num |-> 80] >>
    [] file = "pad.sf2" ->
         << [name |-> NoName, has_num |-> FALSE, bank |-> 0, num |-> 0] >>
    [] OTHER -> << >>

\* The bank file at `path` on a disk whose soundfonts directory is d:
\* [ok |-> it exists and parses as a soundfont, presets |-> its presets].
\* bass.sf2 is a corrupt file; <module_dir>/instrument.sf2 does not exist.
DiskFile(path, d) ==
  IF /\ d.exists
     /\ Len(path) = Len(SoundfontDir) + 1
     /\ SubSeq(path, 1, Len(SoundfontDir)) = SoundfontDir
     /\ Basename(path) \in d.files
  THEN [ok |-> Basename(path) # "bass.sf2", presets |-> BankPresets(Basename(path))]
  ELSE IF path \in {ExtPad, ExtEmpty}
  THEN [ok |-> TRUE, presets |-> BankPresets(Basename(path))]
  ELSE [ok |-> FALSE, presets |-> << >>]

\* Every state of the soundfonts directory.
DirStates ==
  {[exists |-> FALSE, files |-> {}]} \cup {[exists |-> TRUE, files |-> f] : f \in SUBSET SfFiles}

(***************************************************************************)
(* Resource catalog                                                        *)
(***************************************************************************)
MAX_SOUNDFONTS == 64
MAX_PRESETS == 1024
\* The length of left_buf and of right_buf.
MOVE_FRAMES_PER_BLOCK == 128

\* All orders in which readdir(3) may return the entries S.
RECURSIVE Orders(_)
Orders(S) ==
  IF S = {} THEN {<< >>}
  ELSE UNION {{<<e>> \o t : t \in Orders(S \ {e})} : e \in S}

Readdir(d) == Orders(d.files \cup OtherFiles)

\* A comparator that tells upper case from lower case.
soundfont_entry_cmp_case_sensitive(sa, sb) == strcmp(Bytes(sa.name), Bytes(sb.name))

soundfont_entry_cmp(sa, sb) == strcasecmp(Bytes(sa.name), Bytes(sb.name))

\* A readdir loop that takes every entry that is not hidden, whatever its type.
RECURSIVE ScanEntriesOfAnyType(_, _, _)
ScanEntriesOfAnyType(listing, i, acc) ==
  IF i > Len(listing) THEN acc
  ELSE IF ByteAt(Bytes(listing[i]), 1) = 46 THEN ScanEntriesOfAnyType(listing, i + 1, acc)
  ELSE IF Len(acc) >= MAX_SOUNDFONTS THEN acc
  ELSE ScanEntriesOfAnyType(listing, i + 1,
         Append(acc, [path |-> SoundfontDir \o <<listing[i]>>, name |-> listing[i]]))

\* The readdir loop of scan_soundfonts: hidden entries and entries whose last
\* extension is not .sf2 (any case) are skipped; the loop stops at capacity.
RECURSIVE ScanEntries(_, _, _)
ScanEntries(listing, i, acc) ==
  IF i > Len(listing) THEN acc
  ELSE LET d_name == listing[i]
           b == Bytes(d_name)
           ext == strrchr(b, 46)
       IN IF ByteAt(b, 1) = 46 THEN ScanEntries(listing, i + 1, acc)
          ELSE IF ext = 0 \/ strcasecmp(SubSeq(b, ext, Len(b)), Bytes(".sf2")) # 0
          THEN ScanEntries(listing, i + 1, acc)
          ELSE IF Len(acc) >= MAX_SOUNDFONTS THEN acc
          ELSE ScanEntries(listing, i + 1,
                 Append(acc, [path |-> SoundfontDir \o <<d_name>>, name |-> d_name]))

SeqRange(q) == {q[i] : i \in 1..Len(q)}

\* qsort(3): some arrangement of the array that the comparator finds in order;
\* the order of entries that compare equal is unspecified.
qsort(arr) ==
  {p \in Orders(SeqRange(arr)) :
     \A i \in 1..(Len(p) - 1) : soundfont_entry_cmp(p[i], p[i + 1]) <= 0}

\* Every catalog scan_soundfonts may leave for directory state d.
scan_soundfonts(d) ==
  IF ~d.exists THEN {<< >>}
  ELSE UNION {LET raw == ScanEntries(listing, 1, << >>)
              IN IF Len(raw) > 1 THEN qsort(raw) ELSE {raw}
              : listing \in Readdir(d)}

ScanTable == [d \in DirStates |-> scan_soundfonts(d)]

find_soundfont_by_name(s, name) ==
  LET hits == {i \in 0..(s.soundfont_count - 1) : s.soundfonts[i + 1].name = name}
  IN IF hits = {} THEN -1 ELSE CHOOSE i \in hits : \A j \in hits : i <= j

(***************************************************************************)
(* The synthesis engine (FluidLite), as the plugin drives it.  The model   *)
(* keeps the calls a handler makes on it, in order, and whether the engine *)
(* has voices: "none", "held" (a note is down) or "released" (decaying).   *)
(***************************************************************************)
Cmd(c, path, a, b, d, e) ==
  [c |-> c, path |-> path, a |-> a, b |-> b, d |-> d, e |-> e]

fluid_synth_sfunload(id) == Cmd("sfunload", << >>, id, 1, 0, 0)
fluid_synth_sfload(path) == Cmd("sfload", path, 1, 0, 0, 0)
fluid_synth_program_select(chan, sfont_id, bank, num) ==
  Cmd("program_select", << >>, chan, sfont_id, bank, num)
fluid_synth_all_notes_off(chan) == Cmd("all_notes_off", << >>, chan, 0, 0, 0)
fluid_synth_noteon(chan, key, vel) == Cmd("noteon", << >>, chan, key, vel, 0)
fluid_synth_noteoff(chan, key) == Cmd("noteoff", << >>, chan, key, 0, 0)
fluid_synth_cc(chan, ctrl, val) == Cmd("cc", << >>, chan, ctrl, val, 0)
fluid_synth_pitch_bend(chan, val) == Cmd("pitch_bend", << >>, chan, val, 0, 0)
fluid_synth_channel_pressure(chan, val) == Cmd("channel_pressure", << >>, chan, val, 0, 0)
fluid_synth_set_gain(gain) == Cmd("set_gain", << >>, gain, 0, 0, 0)
fluid_synth_write_float(frames) == Cmd("write_float", << >>, frames, 0, 0, 0)

\* The engine's voices after call cmd: a note-on starts a voice when a bank
\* with presets is loaded; note-off and all-notes-off release what is held;
\* loading and unloading a bank leave sounding voices as they are.
SynthVoices(s, cmd) ==
  IF cmd.c = "noteon" THEN (IF s.sfont_id >= 0 /\ s.preset_count > 0 THEN "held" ELSE s.voices)
  ELSE IF cmd.c \in {"noteoff", "all_notes_off"}
  THEN (IF s.voices = "held" THEN "released" ELSE s.voices)
  ELSE s.voices

\* The handler calls the engine.
Call(s, cmd) == [s EXCEPT !.cmds = Append(@, cmd), !.voices = SynthVoices(s, cmd)]

\* Statements in sequence: F applied to the instance the statements before it
\* left, that instance worked out once.
Then(v, F(_)) == CHOOSE r \in {F(x) : x \in {v}} : TRUE

(***************************************************************************)
(* Bank loader and preset list                                             *)
(***************************************************************************)
NoError == ""
LoadError == "SF2: failed to load soundfont"

\* The iteration loop of build_preset_list over the engine's presets.
RECURSIVE PresetEntries(_, _)
PresetEntries(iter, acc) ==
  IF Len(acc) >= Len(iter) \/ Len(acc) >= MAX_PRESETS THEN acc
  ELSE LET preset == iter[Len(acc) + 1]
           count == Len(acc)
       IN PresetEntries(iter,
            Append(acc,
              [name |-> IF preset.name # NoName THEN preset.name
                        ELSE "Preset " \o NatText(count),
               bank |-> IF preset.has_num THEN preset.bank ELSE 0,
               program |-> IF preset.has_num THEN preset.num ELSE count]))

\* iter: what the engine's loaded soundfont enumerates.
build_preset_list(s, iter) ==
  LET s0 == [s EXCEPT !.preset_count = 0, !.presets = << >>]
  IN IF ~s0.synth THEN s0
     ELSE IF s0.sfont_id < 0 THEN s0
     ELSE LET list == PresetEntries(iter, << >>)
          IN [s0 EXCEPT !.presets = list, !.preset_count = Len(list)]

\* A failed load that leaves no error text.
load_failed_silently(s) == [s EXCEPT !.soundfont_name = "Load failed"]

\* load_soundfont when fluid_synth_sfload returned a negative id.
load_failed(s) == [s EXCEPT !.soundfont_name = "Load failed", !.load_error = LoadError]

\* A successful load that leaves the error text of an earlier failure.
load_succeeded_keeping_error(s, path, iter) ==
  Then([build_preset_list(s, iter)
          EXCEPT !.soundfont_name = Basename(path), !.soundfont_path = path], LAMBDA s1 :
  IF s1.preset_count > 0
  THEN Call([s1 EXCEPT !.preset_name = s1.presets[1].name],
            fluid_synth_program_select(0, s1.sfont_id,
                                       s1.presets[1].bank, s1.presets[1].program))
  ELSE s1)

\* load_soundfont when fluid_synth_sfload returned the id of the new bank;
\* iter: what that bank enumerates.
load_succeeded(s, path, iter) ==
  Then([build_preset_list([s EXCEPT !.load_error = NoError], iter)
          EXCEPT !.soundfont_name = Basename(path), !.soundfont_path = path], LAMBDA s1 :
  IF s1.preset_count > 0
  THEN Call([s1 EXCEPT !.preset_name = s1.presets[1].name],
            fluid_synth_program_select(0, s1.sfont_id,
                                       s1.presets[1].bank, s1.presets[1].program))
  ELSE s1)

\* A load that leaves the preset count and index for build_preset_list to reset.
load_soundfont_keeping_presets(s, path, d) ==
  Then(IF s.sfont_id >= 0 /\ s.synth
       THEN [Call(s, fluid_synth_sfunload(s.sfont_id)) EXCEPT !.sfont_id = -1]
       ELSE s, LAMBDA s1 :
  Then([Call(s1, fluid_synth_sfload(path))
          EXCEPT !.sfont_id = IF DiskFile(path, d).ok THEN 1 ELSE -1], LAMBDA s2 :
  IF s2.sfont_id < 0 THEN load_failed(s2)
  ELSE load_succeeded(s2, path, DiskFile(path, d).presets)))

\* d: the soundfonts directory at the time of the call.
load_soundfont(s, path, d) ==
  Then(IF s.sfont_id >= 0 /\ s.synth
       THEN [Call(s, fluid_synth_sfunload(s.sfont_id)) EXCEPT !.sfont_id = -1]
       ELSE s, LAMBDA s1 :
  Then([Call([s1 EXCEPT !.preset_count = 0, !.presets = << >>, !.current_preset = 0],
             fluid_synth_sfload(path))
          EXCEPT !.sfont_id = IF DiskFile(path, d).ok THEN 1 ELSE -1], LAMBDA s2 :
  IF s2.sfont_id < 0 THEN load_failed(s2)
  ELSE load_succeeded(s2, path, DiskFile(path, d).presets)))

\* The statements of load_soundfont one group at a time, for a caller that can
\* be overtaken between them.
load_unload(s) ==
  IF s.sfont_id >= 0 /\ s.synth
  THEN [Call(s, fluid_synth_sfunload(s.sfont_id)) EXCEPT !.sfont_id = -1]
  ELSE s

load_reset(s) == [s EXCEPT !.preset_count = 0, !.presets = << >>, !.current_preset = 0]

load_sfload(s, path, d) ==
  Then([Call(s, fluid_synth_sfload(path))
          EXCEPT !.sfont_id = IF DiskFile(path, d).ok THEN 1 ELSE -1], LAMBDA s1 :
  IF s1.sfont_id < 0 THEN load_failed(s1) ELSE s1)

load_build(s, path, iter) ==
  [build_preset_list([s EXCEPT !.load_error = NoError], iter)
     EXCEPT !.soundfont_name = Basename(path), !.soundfont_path = path]

load_select(s) ==
  IF s.preset_count > 0
  THEN Call([s EXCEPT !.preset_name = s.presets[1].name],
            fluid_synth_program_select(0, s.sfont_id, s.presets[1].bank, s.presets[1].program))
  ELSE s

\* A set_soundfont_index that clamps the index to the ends of the catalog.
set_soundfont_index_clamped(s, index, d) ==
  IF s.soundfont_count <= 0 THEN s
  ELSE LET i1 == IF index < 0 THEN 0 ELSE index
           i2 == IF i1 >= s.soundfont_count THEN s.soundfont_count - 1 ELSE i1
       IN Then([s EXCEPT !.soundfont_index = i2], LAMBDA s1 :
          load_soundfont(s1, s1.soundfonts[s1.soundfont_index + 1].path, d))

set_soundfont_index(s, index, d) ==
  IF s.soundfont_count <= 0 THEN s
  ELSE LET i1 == IF index < 0 THEN s.soundfont_count - 1 ELSE index
           i2 == IF i1 >= s.soundfont_count THEN 0 ELSE i1
       IN Then([s EXCEPT !.soundfont_index = i2], LAMBDA s1 :
          load_soundfont(s1, s1.soundfonts[s1.soundfont_index + 1].path, d))

\* A select_preset that switches program without muting.
select_preset_unmuted(s, index) ==
  IF ~s.synth \/ s.preset_count = 0 THEN s
  ELSE LET i1 == IF index < 0 THEN s.preset_count - 1 ELSE index
           i2 == IF i1 >= s.preset_count THEN 0 ELSE i1
       IN Call([s EXCEPT !.current_preset = i2, !.preset_name = s.presets[i2 + 1].name],
               fluid_synth_program_select(0, s.sfont_id, s.presets[i2 + 1].bank,
                                          s.presets[i2 + 1].program))

select_preset(s, index) ==
  IF ~s.synth \/ s.preset_count = 0 THEN s
  ELSE LET i1 == IF index < 0 THEN s.preset_count - 1 ELSE index
           i2 == IF i1 >= s.preset_count THEN 0 ELSE i1
       IN Then(IF s.current_preset # i2 THEN Call(s, fluid_synth_all_notes_off(-1)) ELSE s,
               LAMBDA s1 :
          Call([s1 EXCEPT !.current_preset = i2, !.preset_name = s1.presets[i2 + 1].name],
               fluid_synth_program_select(0, s1.sfont_id, s1.presets[i2 + 1].bank,
                                          s1.presets[i2 + 1].program)))

(***************************************************************************)
(* V2 API                                                                  *)
(***************************************************************************)
\* frames, silent: the block the caller got; last: the highest index of
\* left_buf and right_buf the call wrote and read, -1 when it used neither.
NoOut == [frames |-> -1, silent |-> TRUE, last |-> -1]
NoDefaults == [has_path |-> FALSE, soundfont_path |-> << >>]

\* A match on the full path alone.
MatchIndexByPath(s, path, name) ==
  LET hits == {i \in 0..(s.soundfont_count - 1) : s.soundfonts[i + 1].path = path}
  IN IF hits = {} THEN -1 ELSE CHOOSE i \in hits : \A j \in hits : i <= j

\* The first catalog index whose path is `path` or whose name is `name`; -1 if none.
MatchIndex(s, path, name) ==
  LET hits == {i \in 0..(s.soundfont_count - 1) :
                 s.soundfonts[i + 1].path = path \/ s.soundfonts[i + 1].name = name}
  IN IF hits = {} THEN -1 ELSE CHOOSE i \in hits : \A j \in hits : i <= j

\* catalog: what scan_soundfonts found; json_defaults: the defaults blob.
v2_create_instance(d, catalog, json_defaults) ==
  LET s0 == [synth |-> TRUE, sfont_id |-> -1, current_preset |-> 0, preset_count |-> 0,
             presets |-> << >>, octave_transpose |-> 0, gain |-> 1000,
             soundfont_path |-> << >>, soundfont_name |-> "No SF2 loaded",
             preset_name |-> "", soundfont_index |-> 0,
             soundfont_count |-> Len(catalog), soundfonts |-> catalog,
             load_error |-> NoError, module_dir |-> module_dir,
             voices |-> "none", cmds |-> << >>, out |-> NoOut]
      default_sf == IF json_defaults.has_path THEN json_defaults.soundfont_path ELSE << >>
  IN IF s0.soundfont_count > 0
     THEN LET m == IF default_sf # << >>
                   THEN MatchIndex(s0, default_sf, Basename(default_sf)) ELSE -1
          IN Then([s0 EXCEPT !.soundfont_index = IF m >= 0 THEN m ELSE 0], LAMBDA s1 :
             load_soundfont(s1, s1.soundfonts[s1.soundfont_index + 1].path, d))
     ELSE IF default_sf # << >> THEN load_soundfont(s0, default_sf, d)
     ELSE load_soundfont(s0, module_dir \o <<"instrument.sf2">>, d)

\* A switch that starts a note on every Note On, velocity 0 included.
midi_dispatch_zero_velocity_on(s, status, channel, data1, data2, note) ==
  CASE status = 144 -> Call(s, fluid_synth_noteon(channel, note, data2))
    [] status = 128 -> Call(s, fluid_synth_noteoff(channel, note))
    [] status = 176 ->
         IF data1 = 123 THEN Call(s, fluid_synth_all_notes_off(-1))
         ELSE Call(s, fluid_synth_cc(channel, data1, data2))
    [] status = 224 -> Call(s, fluid_synth_pitch_bend(channel, data2 * 128 + data1))
    [] status = 192 -> IF data1 < s.preset_count THEN select_preset(s, data1) ELSE s
    [] status = 208 -> Call(s, fluid_synth_channel_pressure(channel, data1))
    [] OTHER -> s

\* A switch whose program change hands every value to select_preset.
midi_dispatch_unchecked(s, status, channel, data1, data2, note) ==
  CASE status = 144 ->
         IF data2 > 0 THEN Call(s, fluid_synth_noteon(channel, note, data2))
         ELSE Call(s, fluid_synth_noteoff(channel, note))
    [] status = 128 -> Call(s, fluid_synth_noteoff(channel, note))
    [] status = 176 ->
         IF data1 = 123 THEN Call(s, fluid_synth_all_notes_off(-1))
         ELSE Call(s, fluid_synth_cc(channel, data1, data2))
    [] status = 224 -> Call(s, fluid_synth_pitch_bend(channel, data2 * 128 + data1))
    [] status = 192 -> select_preset(s, data1)
    [] status = 208 -> Call(s, fluid_synth_channel_pressure(channel, data1))
    [] OTHER -> s

\* The switch of v2_on_midi over the status nibble.
midi_dispatch(s, status, channel, data1, data2, note) ==
  CASE status = 144 ->
         IF data2 > 0 THEN Call(s, fluid_synth_noteon(channel, note, data2))
         ELSE Call(s, fluid_synth_noteoff(channel, note))
    [] status = 128 -> Call(s, fluid_synth_noteoff(channel, note))
    [] status = 176 ->
         IF data1 = 123 THEN Call(s, fluid_synth_all_notes_off(-1))
         ELSE Call(s, fluid_synth_cc(channel, data1, data2))
    [] status = 224 -> Call(s, fluid_synth_pitch_bend(channel, data2 * 128 + data1))
    [] status = 192 -> IF data1 < s.preset_count THEN select_preset(s, data1) ELSE s
    [] status = 208 -> Call(s, fluid_synth_channel_pressure(channel, data1))
    [] OTHER -> s

\* A translator that transposes the first data byte of every message.
v2_on_midi_shifting_all(s, msg) ==
  IF ~s.synth \/ Len(msg) < 2 THEN s
  ELSE LET n0 == msg[2] + s.octave_transpose * 12
           n1 == IF n0 < 0 THEN 0 ELSE n0
           note == IF n1 > 127 THEN 127 ELSE n1
       IN midi_dispatch(s, msg[1] - (msg[1] % 16), msg[1] % 16, note,
                        IF Len(msg) > 2 THEN msg[3] ELSE 0, note)

\* msg: the bytes of the message (len = Len(msg)); the source tag is ignored.
v2_on_midi(s, msg) ==
  IF ~s.synth \/ Len(msg) < 2 THEN s
  ELSE LET status == msg[1] - (msg[1] % 16)
           channel == msg[1] % 16
           data1 == msg[2]
           data2 == IF Len(msg) > 2 THEN msg[3] ELSE 0
           is_note == status = 144 \/ status = 128
           n0 == IF is_note THEN data1 + s.octave_transpose * 12 ELSE data1
           n1 == IF is_note /\ n0 < 0 THEN 0 ELSE n0
           note == IF is_note /\ n1 > 127 THEN 127 ELSE n1
       IN midi_dispatch(s, status, channel, data1, data2, note)

\* json_get_string(...) > 0: the key is there and its text is not empty.
json_has_string(blob, key) == key \in blob.has /\ blob[key] # ""
\* json_get_number(...) == 0: the key is there; its value is atof of what follows.
json_has_number(blob, key) == key \in blob.has
json_number(blob, key) == atof(blob[key])

ClampTranspose(n) == IF n < -4 THEN -4 ELSE IF n > 4 THEN 4 ELSE n
ClampGain(g) == IF FloatLess(g, 0) THEN 0 ELSE IF FloatLess(2000, g) THEN 2000 ELSE g

set_gain(s, g) ==
  Then([s EXCEPT !.gain = ClampGain(g)], LAMBDA s1 :
  IF s1.synth THEN Call(s1, fluid_synth_set_gain(s1.gain)) ELSE s1)

\* A restore that takes the blob's index first and its name only without one.
restore_state_index_first(s, blob, d) ==
  LET idx == IF json_has_number(blob, "soundfont_index")
             THEN IntCast(json_number(blob, "soundfont_index")) ELSE -1
      by_name == IF json_has_string(blob, "soundfont_name")
                 THEN find_soundfont_by_name(s, blob.soundfont_name) ELSE -1
      sf_idx == IF idx >= 0 /\ idx < s.soundfont_count THEN idx ELSE by_name
  IN Then(IF sf_idx >= 0 THEN set_soundfont_index(s, sf_idx, d) ELSE s, LAMBDA s1 :
     Then(IF json_has_number(blob, "preset")
          THEN select_preset(s1, IntCast(json_number(blob, "preset"))) ELSE s1, LAMBDA s2 :
     Then(IF json_has_number(blob, "octave_transpose")
          THEN [s2 EXCEPT !.octave_transpose =
                  ClampTranspose(IntCast(json_number(blob, "octave_transpose")))]
          ELSE s2, LAMBDA s3 :
     IF json_has_number(blob, "gain") THEN set_gain(s3, json_number(blob, "gain")) ELSE s3)))

\* The "state" branch of v2_set_param: bank by name, else by index; then preset,
\* transpose and gain, each when its key is in the blob.
restore_state(s, blob, d) ==
  LET by_name == IF json_has_string(blob, "soundfont_name")
                 THEN find_soundfont_by_name(s, blob.soundfont_name) ELSE -1
      idx == IF json_has_number(blob, "soundfont_index")
             THEN IntCast(json_number(blob, "soundfont_index")) ELSE -1
      sf_idx == IF by_name < 0 /\ json_has_number(blob, "soundfont_index")
                   /\ idx >= 0 /\ idx < s.soundfont_count
                THEN idx ELSE by_name
  IN Then(IF sf_idx >= 0 THEN set_soundfont_index(s, sf_idx, d) ELSE s, LAMBDA s1 :
     Then(IF json_has_number(blob, "preset")
          THEN select_preset(s1, IntCast(json_number(blob, "preset"))) ELSE s1, LAMBDA s2 :
     Then(IF json_has_number(blob, "octave_transpose")
          THEN [s2 EXCEPT !.octave_transpose =
                  ClampTranspose(IntCast(json_number(blob, "octave_transpose")))]
          ELSE s2, LAMBDA s3 :
     IF json_has_number(blob, "gain") THEN set_gain(s3, json_number(blob, "gain")) ELSE s3)))

\* A dispatcher whose panic also forgets the load error.
v2_set_param_clearing_error(s, key, val, d) ==
  CASE key = "soundfont_path" ->
         Then(load_soundfont(s, val, d), LAMBDA s1 :
           LET m == IF s1.soundfont_count > 0 THEN MatchIndex(s1, val, Basename(val)) ELSE -1
           IN IF m >= 0 THEN [s1 EXCEPT !.soundfont_index = m] ELSE s1)
    [] key = "soundfont_index" -> set_soundfont_index(s, atoi(Bytes(val)), d)
    [] key = "next_soundfont" -> set_soundfont_index(s, s.soundfont_index + 1, d)
    [] key = "prev_soundfont" -> set_soundfont_index(s, s.soundfont_index - 1, d)
    [] key = "preset" -> select_preset(s, atoi(Bytes(val)))
    [] key = "octave_transpose" ->
         [s EXCEPT !.octave_transpose = ClampTranspose(atoi(Bytes(val)))]
    [] key = "gain" -> set_gain(s, atof(Bytes(val)))
    [] key \in {"all_notes_off", "panic"} ->
         IF s.synth THEN Call([s EXCEPT !.load_error = NoError], fluid_synth_all_notes_off(-1))
         ELSE s
    [] key = "state" -> restore_state(s, val, d)
    [] OTHER -> s

\* A dispatcher that takes every key for "panic".
v2_set_param_panicking(s, key, val, d) ==
  IF s.synth THEN Call(s, fluid_synth_all_notes_off(-1)) ELSE s

\* val: a path for "soundfont_path", a blob for "state", text for the other keys.
v2_set_param(s, key, val, d) ==
  CASE key = "soundfont_path" ->
         Then(load_soundfont(s, val, d), LAMBDA s1 :
           LET m == IF s1.soundfont_count > 0 THEN MatchIndex(s1, val, Basename(val)) ELSE -1
           IN IF m >= 0 THEN [s1 EXCEPT !.soundfont_index = m] ELSE s1)
    [] key = "soundfont_index" -> set_soundfont_index(s, atoi(Bytes(val)), d)
    [] key = "next_soundfont" -> set_soundfont_index(s, s.soundfont_index + 1, d)
    [] key = "prev_soundfont" -> set_soundfont_index(s, s.soundfont_index - 1, d)
    [] key = "preset" -> select_preset(s, atoi(Bytes(val)))
    [] key = "octave_transpose" ->
         [s EXCEPT !.octave_transpose = ClampTranspose(atoi(Bytes(val)))]
    [] key = "gain" -> set_gain(s, atof(Bytes(val)))
    [] key \in {"all_notes_off", "panic"} ->
         IF s.synth THEN Call(s, fluid_synth_all_notes_off(-1)) ELSE s
    [] key = "state" -> restore_state(s, val, d)
    [] OTHER -> s

StateKeys == {"soundfont_name", "soundfont_index", "preset", "octave_transpose", "gain"}

\* The "state" branch of v2_get_param: the snapshot it prints.
state_snapshot(s) ==
  [has |-> StateKeys,
   soundfont_name |-> IF s.soundfont_count > 0 /\ s.soundfont_index < s.soundfont_count
                      THEN s.soundfonts[s.soundfont_index + 1].name ELSE "",
   soundfont_index |-> FmtInt(s.soundfont_index),
   preset |-> FmtInt(s.current_preset),
   octave_transpose |-> FmtInt(s.octave_transpose),
   gain |-> FmtFixed2(s.gain)]

\* The keys v2_get_param answers from the instance without changing it.
v2_get_param(s, key) ==
  CASE key = "load_error" -> [ret |-> Len(s.load_error), buf |-> s.load_error]
    [] key \in {"soundfont_name", "bank_name"} ->
         [ret |-> Len(s.soundfont_name), buf |-> s.soundfont_name]
    [] key = "soundfont_path" -> [ret |-> Len(s.soundfont_path), buf |-> s.soundfont_path]
    [] key \in {"soundfont_count", "bank_count"} ->
         [ret |-> Len(FmtInt(s.soundfont_count)), buf |-> FmtInt(s.soundfont_count)]
    [] key = "soundfont_index" ->
         [ret |-> Len(FmtInt(s.soundfont_index)), buf |-> FmtInt(s.soundfont_index)]
    [] key \in {"preset", "current_patch"} ->
         [ret |-> Len(FmtInt(s.current_preset)), buf |-> FmtInt(s.current_preset)]
    [] key \in {"preset_name", "patch_name", "name"} ->
         [ret |-> Len(s.preset_name), buf |-> s.preset_name]
    [] key \in {"preset_count", "total_patches"} ->
         [ret |-> Len(FmtInt(s.preset_count)), buf |-> FmtInt(s.preset_count)]
    [] key = "octave_transpose" ->
         [ret |-> Len(FmtInt(s.octave_transpose)), buf |-> FmtInt(s.octave_transpose)]
    [] key = "gain" -> [ret |-> Len(FmtFixed2(s.gain)), buf |-> FmtFixed2(s.gain)]
    [] key = "patch_in_bank" ->
         [ret |-> Len(FmtInt(s.current_preset + 1)), buf |-> FmtInt(s.current_preset + 1)]
    [] key = "state" -> [ret |-> 1, buf |-> state_snapshot(s)]
    [] key = "ui_hierarchy" -> [ret |-> 1, buf |-> "ui_hierarchy"]
    [] OTHER -> [ret |-> -1, buf |-> ""]

v2_get_error(s) == [ret |-> Len(s.load_error), buf |-> s.load_error]

\* A render that forgets the catalog, as the first line of a scan does.
v2_render_block_rescanning(s, frames) ==
  IF ~s.synth THEN [s EXCEPT !.out = [frames |-> frames, silent |-> TRUE, last |-> -1]]
  ELSE Then(Call(s, fluid_synth_write_float(frames)), LAMBDA s1 :
       [s1 EXCEPT !.out = [frames |-> frames, silent |-> s1.voices = "none",
                           last |-> frames - 1],
                  !.soundfont_count = 0, !.soundfonts = << >>])

\* The output block is silent when there is no engine, and otherwise holds
\* what the engine rendered: silence exactly when it has no voice.
v2_render_block(s, frames) ==
  IF ~s.synth THEN [s EXCEPT !.out = [frames |-> frames, silent |-> TRUE, last |-> -1]]
  ELSE Then(Call(s, fluid_synth_write_float(frames)), LAMBDA s1 :
       [s1 EXCEPT !.out = [frames |-> frames, silent |-> s1.voices = "none",
                           last |-> frames - 1]])

\* What module_dir holds once samples have been written over it.
Overwritten == <<"?">>

\* The writes of a block longer than the buffers run past left_buf into
\* right_buf and past right_buf into module_dir, the field the struct lays
\* after it; landed: whether, in this build, they did land there.
buffer_overrun(s, frames, landed) ==
  IF s.synth /\ frames > MOVE_FRAMES_PER_BLOCK /\ landed
  THEN [s EXCEPT !.module_dir = Overwritten]
  ELSE s

\* scan_soundfonts(inst, inst->module_dir): opendir fails on a path that is
\* no longer the module's.
Rescan(s, d) == IF s.module_dir = module_dir THEN ScanTable[d] ELSE {<< >>}

(***************************************************************************)
(* The state machine                                                       *)
(***************************************************************************)
VARIABLES
  inst,    \* the fields of sf2_instance_t
  voices,  \* the engine's voices
  cmds,    \* the engine calls the last handler made, in order
  out,     \* the block the last render call wrote
  dir,     \* the soundfonts directory on disk
  op,      \* the last API call, [api, key, val], or the change on disk after it
  load     \* where the control path stands inside load_soundfont, and with what

vars == <<inst, voices, cmds, out, dir, op, load>>

InstFields ==
  {"synth", "sfont_id", "current_preset", "preset_count", "presets", "octave_transpose",
   "gain", "soundfont_path", "soundfont_name", "preset_name", "soundfont_index",
   "soundfont_count", "soundfonts", "load_error", "module_dir"}

\* The instance and the engine as a handler finds them on entry.
Self == inst @@ [voices |-> voices, cmds |-> << >>, out |-> NoOut]

Op(api, key, val) == [api |-> api, key |-> key, val |-> val]

Idle == [at |-> "idle", path |-> << >>, index |-> 0, from |-> << >>]

\* The code ran up to position l leaving result.
Step(result, o, l) ==
  \E r \in {result} :
    /\ inst' = [f \in InstFields |-> r[f]]
    /\ voices' = r.voices
    /\ cmds' = r.cmds
    /\ out' = r.out
    /\ op' = o
    /\ load' = l
    /\ UNCHANGED dir

\* The handler returned leaving result.
Return(result, o) == Step(result, o, load)

CatalogPath(name) == SoundfontDir \o <<name>>

Blob(name, index, preset, transpose, gain) ==
  [has |-> StateKeys, soundfont_name |-> name, soundfont_index |-> Bytes(index),
   preset |-> Bytes(preset), octave_transpose |-> Bytes(transpose), gain |-> Bytes(gain)]

\* Inputs the host passes.
DefaultsInputs ==
  {NoDefaults} \cup
  {[has_path |-> TRUE, soundfont_path |-> p] :
     p \in {CatalogPath("Lead.SF2"), <<"Lead.SF2">>, ExtPad, << >>}}
PathInputs == {CatalogPath("Lead.SF2"), <<"Lead.SF2">>, ExtPad, ExtEmpty}
IndexInputs == {"-1", "0", "1", "2", "3"}
PresetInputs == {"-1", "0", "1", "2", NatText(MaxBankPresets)}
PanicKeys == {"all_notes_off", "panic"}
GetKeys ==
  {"load_error", "soundfont_name", "soundfont_path", "soundfont_count", "soundfont_index",
   "preset", "current_patch", "preset_name", "patch_name", "name", "preset_count",
   "total_patches", "octave_transpose", "gain", "bank_name", "patch_in_bank", "bank_count",
   "state", "ui_hierarchy", "volume"}
FrameInputs == {128}

Init ==
  \E d \in DirStates, json_defaults \in DefaultsInputs :
    \E catalog \in ScanTable[d] :
      \E r \in {v2_create_instance(d, catalog, json_defaults)} :
         /\ inst = [f \in InstFields |-> r[f]]
         /\ voices = r.voices
         /\ cmds = r.cmds
         /\ out = r.out
         /\ dir = d
         /\ op = Op("create_instance", "", json_defaults)
         /\ load = Idle

SetSoundfontPath(Paths) ==
  \E path \in Paths :
    Return(v2_set_param(Self, "soundfont_path", path, dir),
           Op("set_param", "soundfont_path", path))

SetSoundfontIndex(Vals) ==
  \E val \in Vals :
    Return(v2_set_param(Self, "soundfont_index", val, dir),
           Op("set_param", "soundfont_index", val))

NextSoundfont ==
  Return(v2_set_param(Self, "next_soundfont", "", dir), Op("set_param", "next_soundfont", ""))

PrevSoundfont ==
  Return(v2_set_param(Self, "prev_soundfont", "", dir), Op("set_param", "prev_soundfont", ""))

SetPreset(Vals) ==
  \E val \in Vals :
    Return(v2_set_param(Self, "preset", val, dir), Op("set_param", "preset", val))

SetOctaveTranspose(Vals) ==
  \E val \in Vals :
    Return(v2_set_param(Self, "octave_transpose", val, dir),
           Op("set_param", "octave_transpose", val))

SetGain(Vals) ==
  \E val \in Vals :
    Return(v2_set_param(Self, "gain", val, dir), Op("set_param", "gain", val))

Panic ==
  \E key \in PanicKeys :
    Return(v2_set_param(Self, key, "", dir), Op("set_param", key, ""))

\* The host restores the snapshot it has just taken.
RestoreSaved ==
  \E saved \in {v2_get_param(Self, "state").buf} :
    Return(v2_set_param(Self, "state", saved, dir), Op("set_param", "state", saved))

SetState(Blobs) ==
  \E blob \in Blobs :
    Return(v2_set_param(Self, "state", blob, dir), Op("set_param", "state", blob))

SetUnknown(Keys) ==
  \E key \in Keys :
    Return(v2_set_param(Self, key, "1", dir), Op("set_param", key, "1"))

\* get of one key other than "soundfont_list"; the host sees what was returned.
Get(Keys) ==
  \E key \in Keys :
    \E answer \in {v2_get_param(Self, key)} :
      Return(Self, Op("get_param", key, answer.ret))

\* Every key but "soundfont_list": the answer is computed from the instance.
GetParam ==
  /\ \A key \in GetKeys : v2_get_param(Self, key).ret >= -1
  /\ Return(Self, Op("get_param", "", ""))

\* A listing that also points the bank index at the head of the fresh catalog.
GetSoundfontListRewinding ==
  \E catalog \in Rescan(Self, dir) :
    Return([Self EXCEPT !.soundfonts = catalog, !.soundfont_count = Len(catalog),
                        !.soundfont_index = 0],
           Op("get_param", "soundfont_list", ""))

\* get "soundfont_list": the directory is scanned again before the list is printed.
GetSoundfontList ==
  \E catalog \in Rescan(Self, dir) :
    Return([Self EXCEPT !.soundfonts = catalog, !.soundfont_count = Len(catalog)],
           Op("get_param", "soundfont_list", ""))

GetError ==
  /\ v2_get_error(Self).ret >= 0
  /\ Return(Self, Op("get_error", "", ""))

OnMidi(Msgs) ==
  \E msg \in Msgs :
    Return(v2_on_midi(Self, msg), Op("on_midi", "", msg))

\* While a block is rendered, voices that were released may die away.
RenderFrames(Frames) ==
  \E frames \in Frames, fin \in BOOLEAN :
    \E landed \in IF frames > MOVE_FRAMES_PER_BLOCK THEN BOOLEAN ELSE {FALSE} :
      Return([buffer_overrun(v2_render_block(Self, frames), frames, landed) EXCEPT
                !.voices = IF fin /\ @ = "released" THEN "none" ELSE @],
             Op("render_block", "", ""))

\* The host renders blocks of the size the buffers are made for.
RenderBlock == RenderFrames(FrameInputs)

\* Somebody adds or removes a soundfont file, or the directory itself.
DirChange ==
  /\ \E d \in DirStates :
       /\ d # dir
       /\ \/ d.exists # dir.exists /\ d.files = {} /\ dir.files = {}
          \/ /\ d.exists /\ dir.exists
             /\ \E f \in SfFiles : d.files \in {dir.files \cup {f}, dir.files \ {f}}
       /\ dir' = d
  /\ op' = Op("filesystem", "", "")
  /\ UNCHANGED <<inst, voices, cmds, out, load>>

(***************************************************************************)
(* Spec: bank and preset selection on a directory nobody touches.          *)
(***************************************************************************)
BankBlobs ==
  { Blob("Lead.SF2", "0", "1", "99", "5.0"),
    Blob("gone.sf2", "1", "-1", "99", "5.0"),
    [Blob("", "2", "0", "0", "0") EXCEPT !.has = {"soundfont_index"}],
    [Blob("", "1", "0", "0", "0") EXCEPT !.has = {"soundfont_name", "soundfont_index"}] }
BankMidi == { <<144, 60, 100>>, <<128, 60, 64>>, <<192, 1>>, <<192, 5>>, <<144>> }

Next ==
  \/ SetSoundfontPath(PathInputs) \/ SetSoundfontIndex(IndexInputs)
  \/ NextSoundfont \/ PrevSoundfont
  \/ SetPreset(PresetInputs) \/ Panic
  \/ RestoreSaved \/ SetState(BankBlobs) \/ SetUnknown({"volume"})
  \/ GetParam \/ GetSoundfontList \/ GetError
  \/ OnMidi(BankMidi) \/ RenderBlock

Spec == Init /\ [][Next]_vars

(***************************************************************************)
(* SpecPerf: playing.  Transpose, gain and every kind of MIDI message on   *)
(* an instance created over the full directory.                            *)
(***************************************************************************)
TransposeInputs == {"-99", "-1", "2", "99", "abc"}
GainInputs == {"-1", "1.234", "5.0", "abc", "nan"}
PerfBlobs ==
  { Blob("", "0", "0", "-99", "-1"),
    Blob("", "0", "1", "99", "5.0"),
    [Blob("", "0", "0", "2", "0") EXCEPT !.has = {"octave_transpose"}] }
MidiInputs ==
  { <<144, 60, 100>>, <<153, 127, 100>>, <<144, 0, 100>>, <<144, 60, 0>>, <<128, 60, 64>>,
    <<176, 123, 0>>, <<176, 7, 100>>, <<224, 0, 64>>, <<192, 1>>, <<192, 5>>,
    <<208, 90>>, <<160, 60, 10>>, <<144>> }

InitPerf ==
  /\ Init
  /\ dir = [exists |-> TRUE, files |-> SfFiles]
  /\ inst.soundfont_path \in {<< >>, CatalogPath("Bass.sf2")}

NextPerf ==
  \/ SetOctaveTranspose(TransposeInputs) \/ SetGain(GainInputs)
  \/ SetPreset({"1"}) \/ Panic
  \/ RestoreSaved \/ SetState(PerfBlobs) \/ SetUnknown({"volume"})
  \/ GetParam \/ GetError
  \/ OnMidi(MidiInputs) \/ RenderBlock

SpecPerf == InitPerf /\ [][NextPerf]_vars

(***************************************************************************)
(* SpecDir: files come and go between the calls, and the catalog is        *)
(* scanned again on every get "soundfont_list".                            *)
(***************************************************************************)
NextDir ==
  \/ DirChange \/ GetSoundfontList
  \/ SetSoundfontPath({ExtPad}) \/ SetSoundfontIndex({"-1", "1"})
  \/ NextSoundfont \/ PrevSoundfont
  \/ RestoreSaved \/ GetParam \/ RenderBlock

SpecDir == Init /\ [][NextDir]_vars

(***************************************************************************)
(* SpecKeys: the dispatch on the key.  Every key of get, and keys that     *)
(* only the other call knows.                                              *)
(***************************************************************************)
UnknownSetKeys == {"volume", "soundfont_list", "bank_name", "soundfont_name"}
UnknownGetKeys == {"volume", "next_soundfont", "panic"}

NextKeys ==
  \/ GetSoundfontList
  \/ Get(GetKeys \cup UnknownGetKeys) \/ SetUnknown(UnknownSetKeys)
  \/ NextSoundfont \/ SetPreset({"1"})
  \/ OnMidi({<<144, 60, 100>>})

SpecKeys == Init /\ [][NextKeys]_vars

(***************************************************************************)
(* SpecLoad: the control path inside set "soundfont_index", one group of   *)
(* statements of load_soundfont at a time, and the render path running     *)
(* whenever the host calls it.                                             *)
(***************************************************************************)
\* set "soundfont_index" up to the unloading of the old bank.
LoadUnload(Vals) ==
  \E val \in Vals :
    /\ load.at = "idle"
    /\ inst.soundfont_count > 0
    /\ LET index == atoi(Bytes(val))
           i1 == IF index < 0 THEN inst.soundfont_count - 1 ELSE index
           i2 == IF i1 >= inst.soundfont_count THEN 0 ELSE i1
       IN Step(load_unload([Self EXCEPT !.soundfont_index = i2]),
               Op("set_param", "soundfont_index", val),
               [at |-> "reset", path |-> inst.soundfonts[i2 + 1].path, index |-> index,
                from |-> inst])

LoadReset ==
  /\ load.at = "reset"
  /\ Step(load_reset(Self), Op("load_soundfont", "reset", ""), [load EXCEPT !.at = "sfload"])

LoadSfload ==
  /\ load.at = "sfload"
  /\ \E r \in {load_sfload(Self, load.path, dir)} :
       Step(r, Op("load_soundfont", "sfload", ""),
            IF r.sfont_id < 0 THEN Idle ELSE [load EXCEPT !.at = "build"])

LoadBuild ==
  /\ load.at = "build"
  /\ Step(load_build(Self, load.path, DiskFile(load.path, dir).presets),
          Op("load_soundfont", "build", ""), [load EXCEPT !.at = "select"])

LoadSelect ==
  /\ load.at = "select"
  /\ Step(load_select(Self), Op("load_soundfont", "select", ""), Idle)

\* The host starts a note between two loads.
NoteOn ==
  /\ load.at = "idle"
  /\ OnMidi({<<144, 60, 100>>})

NextLoad ==
  \/ LoadUnload(IndexInputs) \/ LoadReset \/ LoadSfload \/ LoadBuild \/ LoadSelect
  \/ NoteOn \/ RenderBlock

SpecLoad == Init /\ [][NextLoad]_vars

(***************************************************************************)
(* SpecRender: a host whose block size need not be MOVE_FRAMES_PER_BLOCK.  *)
(***************************************************************************)
HostFrames == {64, MOVE_FRAMES_PER_BLOCK, 2 * MOVE_FRAMES_PER_BLOCK}

NextRender ==
  \/ RenderFrames(HostFrames) \/ OnMidi({<<144, 60, 100>>, <<128, 60, 64>>})
  \/ GetSoundfontList \/ NextSoundfont \/ SetPreset({"-1"})

SpecRender == Init /\ [][NextRender]_vars

(***************************************************************************)
(* Properties                                                              *)
(***************************************************************************)
AllNotesOff == fluid_synth_all_notes_off(-1)

\* The handler tried to load a bank.
Loads(c) == \E i \in 1..Len(c) : c[i].c = "sfload"

\* The engine calls c up to, and without, the last set_gain.
BeforeGain(c) ==
  IF Len(c) > 0 /\ c[Len(c)].c = "set_gain" THEN SubSeq(c, 1, Len(c) - 1) ELSE c

\* The step is a preset selection: set "preset", a Program Change within the
\* preset list, or a set "state" whose blob holds a preset.
PresetSelection ==
  \/ op'.api = "set_param" /\ op'.key = "preset"
  \/ op'.api = "set_param" /\ op'.key = "state" /\ "preset" \in op'.val.has
  \/ /\ op'.api = "on_midi" /\ Len(op'.val) >= 2
     /\ op'.val[1] \div 16 = 12 /\ op'.val[2] < inst.preset_count

\* C1: every preset selection on a non-empty preset list ends in the
\* program-select of the target preset; when the target is not the preset
\* that was active, an all-notes-off comes right before that program-select,
\* and when it is the active preset, the handler issues no all-notes-off.
C1_MuteBeforeProgramSelect ==
  [][ (PresetSelection /\ inst'.preset_count > 0) =>
        LET active == IF Loads(cmds') THEN 0 ELSE inst.current_preset
            target == inst'.current_preset
            p == inst'.presets[target + 1]
            c == BeforeGain(cmds')
        IN /\ Len(c) >= 1
           /\ c[Len(c)] = fluid_synth_program_select(0, inst'.sfont_id, p.bank, p.program)
           /\ IF target # active
              THEN Len(c) >= 2 /\ c[Len(c) - 1] = AllNotesOff
              ELSE \A i \in 1..Len(c) : c[i] # AllNotesOff ]_vars

\* A note was sounding when set "preset" moved to another preset.
C1_Witness ==
  /\ op.api = "set_param" /\ op.key = "preset"
  /\ Len(cmds) = 2 /\ cmds[1] = AllNotesOff /\ cmds[2].c = "program_select"
  /\ voices = "released" /\ inst.current_preset = 1

\* The position in c of the handler's sfload call.
LoadAt(c) == CHOOSE i \in 1..Len(c) : c[i].c = "sfload"

\* C2: while the last load attempt has failed, the preset list is empty, the
\* preset index is 0, load_error holds text, the display name is "Load failed",
\* and the instance answers: selecting a preset changes nothing, MIDI leaves
\* the engine handle in place, render writes its block and get_error reports.
C2_FailedLoadLeavesInstanceInert ==
  inst.sfont_id < 0 =>
    /\ inst.preset_count = 0 /\ inst.presets = << >>
    /\ inst.current_preset = 0
    /\ Len(inst.load_error) > 0
    /\ inst.soundfont_name = "Load failed"
    /\ inst.synth
    /\ \A val \in PresetInputs : v2_set_param(Self, "preset", val, dir) = Self
    /\ \A msg \in BankMidi : v2_on_midi(Self, msg).synth
    /\ \A frames \in FrameInputs : v2_render_block(Self, frames).out.frames = frames
    /\ v2_get_error(Self).ret > 0
    /\ v2_get_param(Self, "preset_count").buf = Bytes("0")

\* set "soundfont_index" unloaded a bank and failed to load the one it chose.
C2_Witness ==
  /\ op.api = "set_param" /\ op.key = "soundfont_index"
  /\ Len(cmds) = 2 /\ cmds[1].c = "sfunload" /\ cmds[2].c = "sfload"
  /\ inst.sfont_id < 0

\* C3: when the handler's load succeeded, load_error is empty, the stored
\* path is the path given to the engine and the display name is its last
\* component; with a non-empty preset list, the call after sfload is the
\* program-select of preset 0, and, unless a preset step of set "state"
\* followed, the preset index is 0 and preset_name is the name of preset 0.
C3_SuccessfulLoadSelectsFirstPreset ==
  (Loads(cmds) /\ inst.sfont_id >= 0) =>
    LET i == LoadAt(cmds)
        path == cmds[i].path
    IN /\ inst.load_error = ""
       /\ inst.soundfont_path = path
       /\ inst.soundfont_name = path[Len(path)]
       /\ inst.preset_count > 0 =>
            /\ Len(cmds) > i
            /\ cmds[i + 1] = fluid_synth_program_select(0, inst.sfont_id,
                                inst.presets[1].bank, inst.presets[1].program)
            /\ ~(op.api = "set_param" /\ op.key = "state" /\ "preset" \in op.val.has) =>
                 /\ inst.current_preset = 0
                 /\ inst.preset_name = inst.presets[1].name

\* next_soundfont came from a failed bank to Lead.SF2.
C3_Witness ==
  /\ op.api = "set_param" /\ op.key = "next_soundfont"
  /\ Len(cmds) = 2 /\ cmds[1].c = "sfload" /\ cmds[2].c = "program_select"
  /\ inst.soundfont_name = "Lead.SF2" /\ inst.preset_name = "Saw"
  /\ inst.load_error = ""

\* What the host can read of bank, preset, transpose and gain.
Observable(s) ==
  [soundfont_name |-> v2_get_param(s, "soundfont_name").buf,
   soundfont_index |-> v2_get_param(s, "soundfont_index").buf,
   preset |-> v2_get_param(s, "preset").buf,
   octave_transpose |-> v2_get_param(s, "octave_transpose").buf,
   gain |-> v2_get_param(s, "gain").buf]

\* C4: in every reachable state, set "state" of the value get "state" has
\* just returned leaves the observable bank name and index, preset index,
\* transpose and gain as they were, and setting it a second time changes
\* nothing further.
C4_StateRoundTrip ==
  LET v == v2_get_param(Self, "state").buf
      once == v2_set_param(Self, "state", v, dir)
      twice == v2_set_param(once, "state", v, dir)
  IN /\ Observable(once) = Observable(Self)
     /\ Observable(twice) = Observable(once)

\* The step is set_param(key, ...).
SetParam(key) == op'.api = "set_param" /\ op'.key = key

\* C5: on a catalog of N > 0 banks, set "soundfont_index" of -1 selects bank
\* N-1 and of N selects bank 0, prev_soundfont at bank 0 goes to N-1 and
\* next_soundfont at bank N-1 goes to 0; on a preset list of M > 0 presets,
\* preset -1 selects preset M-1 and preset M selects preset 0, by set "preset"
\* and by the preset of set "state".
C5_Wraparound ==
  [][ /\ inst.soundfont_count > 0 =>
           LET N == inst.soundfont_count
           IN /\ SetParam("soundfont_index") /\ atoi(Bytes(op'.val)) = -1
                   => inst'.soundfont_index = N - 1
              /\ SetParam("soundfont_index") /\ atoi(Bytes(op'.val)) = N
                   => inst'.soundfont_index = 0
              /\ SetParam("prev_soundfont") /\ inst.soundfont_index = 0
                   => inst'.soundfont_index = N - 1
              /\ SetParam("next_soundfont") /\ inst.soundfont_index = N - 1
                   => inst'.soundfont_index = 0
      /\ inst'.preset_count > 0 =>
           LET M == inst'.preset_count
           IN /\ SetParam("preset") /\ atoi(Bytes(op'.val)) = -1
                   => inst'.current_preset = M - 1
              /\ SetParam("preset") /\ atoi(Bytes(op'.val)) = M
                   => inst'.current_preset = 0
              /\ SetParam("state") /\ "preset" \in op'.val.has
                   /\ IntCast(atof(op'.val.preset)) = -1
                   => inst'.current_preset = M - 1 ]_vars

\* prev_soundfont has gone from the first of three banks to the last.
C5_Witness ==
  /\ op.api = "set_param" /\ op.key = "prev_soundfont"
  /\ inst.soundfont_count = 3 /\ inst.soundfont_index = 2
  /\ inst.soundfont_name = "Lead.SF2"

\* C6: in every reachable state octave_transpose is in [-4, 4] and gain is
\* in [0.0, 2.0]; after set "gain" of "5.0", get "gain" answers "2.00", and
\* after set "octave_transpose" of "99", get "octave_transpose" answers "4".
C6_TransposeAndGainClamped ==
  /\ inst.octave_transpose >= -4 /\ inst.octave_transpose <= 4
  /\ FloatLessEq(0, inst.gain) /\ FloatLessEq(inst.gain, 2000)
  /\ (op.api = "set_param" /\ op.key = "gain" /\ op.val = "5.0")
       => v2_get_param(Self, "gain").buf = Bytes("2.00")
  /\ (op.api = "set_param" /\ op.key = "octave_transpose" /\ op.val = "99")
       => v2_get_param(Self, "octave_transpose").buf = Bytes("4")

\* The message the last on_midi call was given.
Status == op.val[1] - (op.val[1] % 16)
Channel == op.val[1] % 16
Data1 == op.val[2]
Data2 == IF Len(op.val) > 2 THEN op.val[3] ELSE 0

\* C7: whatever octave_transpose is, a Control Change, Pitch Bend, Channel
\* Pressure or Program Change reaches the engine with the data values of the
\* message: the controller and value, the 14-bit bend, the pressure, the
\* preset of that index.  A note message reaches it with the note shifted by
\* 12 * octave_transpose and held in 0..127.
C7_TransposeOnlyShiftsNotes ==
  (op.api = "on_midi" /\ Len(op.val) >= 2) =>
    /\ (Status = 176 /\ Data1 # 123) => cmds = <<fluid_synth_cc(Channel, Data1, Data2)>>
    /\ Status = 224 => cmds = <<fluid_synth_pitch_bend(Channel, Data2 * 128 + Data1)>>
    /\ Status = 208 => cmds = <<fluid_synth_channel_pressure(Channel, Data1)>>
    /\ (Status = 192 /\ Data1 < inst.preset_count) =>
         /\ inst.current_preset = Data1
         /\ cmds[Len(cmds)] =
              fluid_synth_program_select(0, inst.sfont_id, inst.presets[Data1 + 1].bank,
                                         inst.presets[Data1 + 1].program)
    /\ Status \in {128, 144} =>
         LET n == Data1 + 12 * inst.octave_transpose
         IN /\ Len(cmds) = 1 /\ cmds[1].c \in {"noteon", "noteoff"}
            /\ cmds[1].b = IF n < 0 THEN 0 ELSE IF n > 127 THEN 127 ELSE n

\* A Control Change 7 went to the engine while the transpose was +4 octaves.
C7_Witness ==
  /\ op.api = "on_midi" /\ op.val = <<176, 7, 100>>
  /\ inst.octave_transpose = 4
  /\ cmds = <<fluid_synth_cc(0, 7, 100)>>

\* C8: a render of 128 frames while no bank is loaded, or with no engine,
\* writes 128 stereo frames of silence.
C8_NoBankRendersSilence ==
  (op.api = "render_block" /\ out.frames = 128 /\ (inst.sfont_id < 0 \/ ~inst.synth))
    => out.silent

\* C9: in every reachable state, each catalog entry's name, lowercased, is
\* less than or equal to the lowercased name of the entry after it.
C9_CatalogSortedIgnoringCase ==
  \A i \in 1..(inst.soundfont_count - 1) :
    strcasecmp(Bytes(inst.soundfonts[i].name), Bytes(inst.soundfonts[i + 1].name)) <= 0

\* A rescan found three files, the lower-case bass.sf2 ahead of Bass.sf2.
C9_Witness ==
  /\ op.api = "get_param" /\ op.key = "soundfont_list"
  /\ inst.soundfont_count = 3
  /\ inst.soundfonts[1].name = "bass.sf2" /\ inst.soundfonts[2].name = "Bass.sf2"
  /\ inst.soundfonts[3].name = "Lead.SF2"

\* The soundfonts directory is absent or holds no soundfont file.
NoSoundfonts(d) == ~d.exists \/ d.files = {}

\* C10: a scan of an absent directory, or of one with no soundfont file,
\* leaves a catalog of size 0 and no error: at creation the catalog is empty,
\* and get "soundfont_list" empties the catalog, calls no engine function and
\* leaves load_error as it was.  On an empty catalog set "soundfont_index",
\* "next_soundfont" and "prev_soundfont" call no engine function and leave
\* the whole instance, and the engine's voices, as they were.
C10_EmptyCatalog ==
  /\ NoSoundfonts(dir) => inst.soundfont_count = 0 /\ inst.soundfonts = << >>
  /\ [][ LET rescan == op'.api = "get_param" /\ op'.key = "soundfont_list"
              step == /\ op'.api = "set_param"
                      /\ op'.key \in {"soundfont_index", "next_soundfont", "prev_soundfont"}
          IN /\ (rescan /\ NoSoundfonts(dir)) =>
                  /\ inst'.soundfont_count = 0 /\ inst'.soundfonts = << >>
                  /\ cmds' = << >>
                  /\ inst'.load_error = inst.load_error
             /\ (step /\ inst.soundfont_count = 0) =>
                  /\ inst' = inst
                  /\ cmds' = << >>
                  /\ voices' = voices ]_vars

\* next_soundfont on an empty catalog left the bank loaded from a path alone.
C10_Witness ==
  /\ op.api = "set_param" /\ op.key = "next_soundfont"
  /\ inst.soundfont_count = 0 /\ cmds = << >>
  /\ inst.soundfont_name = "pad.sf2" /\ inst.sfont_id >= 0

\* The catalog positions whose entry is named name.
Named(name) == {i \in 1..inst.soundfont_count : inst.soundfonts[i].name = name}

\* The fields that tell which bank is loaded, and its presets.
LoadedBank(i) ==
  <<i.sfont_id, i.soundfont_name, i.soundfont_path, i.soundfont_index, i.load_error,
    i.preset_count, i.presets>>

\* C11: set "state" loads the first catalog entry that bears the blob's
\* soundfont_name, whatever the blob's soundfont_index; without a name, with
\* an empty one or with one no entry bears, it loads the entry at the blob's
\* soundfont_index when that lies in [0, soundfont_count); otherwise it
\* attempts no load and the loaded bank stays.
C11_RestoreResolvesBankByNameFirst ==
  [][ SetParam("state") =>
        LET blob == op'.val
            named == IF "soundfont_name" \in blob.has /\ blob.soundfont_name # ""
                     THEN Named(blob.soundfont_name) ELSE {}
            idx == IF "soundfont_index" \in blob.has
                   THEN IntCast(atof(blob.soundfont_index)) ELSE -1
            chosen == IF named # {} THEN (CHOOSE i \in named : \A j \in named : i <= j) - 1
                      ELSE IF idx >= 0 /\ idx < inst.soundfont_count THEN idx
                      ELSE -1
        IN IF chosen >= 0
           THEN /\ Loads(cmds')
                /\ cmds'[LoadAt(cmds')].path = inst.soundfonts[chosen + 1].path
                /\ inst'.soundfont_index = chosen
           ELSE /\ ~Loads(cmds')
                /\ LoadedBank(inst') = LoadedBank(inst) ]_vars

\* The blob named Lead.SF2 and gave index 0, where another bank sits: Lead.SF2
\* was loaded.
C11_Witness ==
  /\ op.api = "set_param" /\ op.key = "state"
  /\ op.val.has = StateKeys
  /\ op.val.soundfont_name = "Lead.SF2" /\ op.val.soundfont_index = Bytes("0")
  /\ inst.soundfont_index > 0 /\ inst.soundfonts[1].name # "Lead.SF2"
  /\ inst.soundfont_name = "Lead.SF2"

\* The keys the strcmp chain of v2_set_param names, and those of v2_get_param.
SetKeys ==
  {"soundfont_path", "soundfont_index", "next_soundfont", "prev_soundfont", "preset",
   "octave_transpose", "gain", "all_notes_off", "panic", "state"}
AnsweredKeys == (GetKeys \ {"volume"}) \cup {"soundfont_list"}

\* C12: set of a key that v2_set_param does not name leaves every field of the
\* instance and the engine's voices as they were and makes no engine call; get
\* of a key that v2_get_param does not name returns -1 and leaves them too.
C12_UnknownKeys ==
  [][ /\ op'.api = "set_param" /\ op'.key \notin SetKeys
          => inst' = inst /\ voices' = voices /\ cmds' = << >>
      /\ op'.api = "get_param" /\ op'.key \notin AnsweredKeys
          => op'.val = -1 /\ inst' = inst /\ voices' = voices /\ cmds' = << >> ]_vars

C12_Witness ==
  /\ op.api = "set_param" /\ op.key = "soundfont_list"
  /\ inst.sfont_id >= 0 /\ voices = "held" /\ inst.current_preset = 1

C12_WitnessGet ==
  /\ op.api = "get_param" /\ op.key = "next_soundfont" /\ op.val = -1
  /\ inst.sfont_id >= 0 /\ inst.soundfont_count > 1

\* C13: a program change with value p makes p the current preset, with its name
\* and the engine's program, when p < preset_count; otherwise, an empty preset
\* list included, the instance and the voices stay as they were and no engine
\* call is made: no all-notes-off, no program-select, no wrap to another preset.
C13_ProgramChangeBounds ==
  [][ op'.api = "on_midi" /\ Len(op'.val) >= 2 /\ op'.val[1] - (op'.val[1] % 16) = 192 =>
        LET p == op'.val[2]
        IN IF p < inst.preset_count
           THEN /\ inst'.current_preset = p
                /\ inst'.preset_name = inst.presets[p + 1].name
                /\ Len(cmds') > 0
                /\ cmds'[Len(cmds')] =
                     fluid_synth_program_select(0, inst.sfont_id, inst.presets[p + 1].bank,
                                                inst.presets[p + 1].program)
                /\ [inst' EXCEPT !.current_preset = 0, !.preset_name = ""]
                     = [inst EXCEPT !.current_preset = 0, !.preset_name = ""]
           ELSE inst' = inst /\ voices' = voices /\ cmds' = << >> ]_vars

\* A program change equal to the preset count, with a note held, was ignored.
C13_Witness ==
  /\ op.api = "on_midi" /\ op.val = <<192, 1>>
  /\ inst.preset_count = 1 /\ inst.current_preset = 0 /\ voices = "held"

C13_WitnessSelected ==
  /\ op.api = "on_midi" /\ op.val = <<192, 1>>
  /\ inst.preset_count = 2 /\ inst.current_preset = 1 /\ voices = "none"
  /\ AllNotesOff \in {cmds[i] : i \in 1..Len(cmds)}

\* The instance without its catalog.
BesidesCatalog(i) == [i EXCEPT !.soundfonts = << >>, !.soundfont_count = 0]

\* C14: get "soundfont_list" makes the catalog a fresh scan of the directory and
\* leaves every other field of the instance, and the engine, as they were; get
\* of any other key leaves the whole instance and the engine as they were.
C14_OnlyListingRescans ==
  [][ op'.api = "get_param" =>
        /\ voices' = voices /\ cmds' = << >>
        /\ IF op'.key = "soundfont_list"
           THEN /\ inst'.soundfonts \in ScanTable[dir]
                /\ inst'.soundfont_count = Len(inst'.soundfonts)
                /\ BesidesCatalog(inst') = BesidesCatalog(inst)
           ELSE inst' = inst ]_vars

\* The listing emptied the catalog under a bank that had been loaded from it
\* at index 1.
C14_Witness ==
  /\ op.api = "get_param" /\ op.key = "soundfont_list"
  /\ inst.soundfont_count = 0 /\ inst.soundfont_index = 1
  /\ inst.sfont_id >= 0 /\ inst.soundfont_path = CatalogPath("Lead.SF2")

\* C15: a render call leaves every field of the instance as it was, the
\* catalog included even when the directory no longer matches it, and its only
\* engine call is the one that writes the block.
C15_RenderLeavesInstanceAlone ==
  [][ op'.api = "render_block" =>
        /\ inst' = inst
        /\ dir' = dir
        /\ \E frames \in FrameInputs : cmds' = << fluid_synth_write_float(frames) >> ]_vars

\* A block was rendered over a catalog that the directory has since outgrown.
C15_Witness ==
  /\ op.api = "render_block" /\ out.frames \in FrameInputs
  /\ inst.sfont_id >= 0 /\ inst.soundfont_count = 1
  /\ inst.soundfonts \notin ScanTable[dir] /\ dir.files = SfFiles

\* The load that has just returned left the instance as load_soundfont, run
\* in one piece from where it started, leaves it.
LoadStepsAgree ==
  [][ load.at # "idle" /\ load'.at = "idle" =>
        inst' = [f \in InstFields |->
                   set_soundfont_index(load.from @@ [voices |-> "none", cmds |-> << >>,
                                                     out |-> NoOut],
                                       load.index, dir)[f]] ]_vars

C16_HalfLoaded ==
  /\ op.api = "render_block" /\ load.at = "build"
  /\ inst.sfont_id >= 0 /\ inst.preset_count = 0
  /\ DiskFile(load.path, dir).presets # << >>

\* C17: set "soundfont_index" with any integer i on a catalog of count > 0
\* entries leaves soundfont_index = i mod count, and set "preset" with any
\* integer i on a list of count > 0 presets leaves current_preset = i mod count.
C17_WrapIsModulo ==
  [][ /\ SetParam("soundfont_index") /\ inst.soundfont_count > 0
          => inst'.soundfont_index = atoi(Bytes(op'.val)) % inst.soundfont_count
      /\ SetParam("preset") /\ inst.preset_count > 0
          => inst'.current_preset = atoi(Bytes(op'.val)) % inst.preset_count ]_vars

\* The program-select calls the last handler made.
ProgramSelects == {i \in 1..Len(cmds) : cmds[i].c = "program_select"}

\* C18: between calls, a non-empty preset list goes with a loaded bank and a
\* current_preset inside the list, and an empty one with current_preset = 0;
\* the list is the loaded bank's own, with nothing left of the bank before;
\* inside a load the list is empty from the reset to the rebuild; and a
\* handler that issued a program-select leaves a non-empty list whose entry at
\* current_preset is the program the engine was last given.
C18_PresetIndexInvariant ==
  /\ load.at = "idle" =>
       /\ Len(inst.presets) = inst.preset_count
       /\ inst.preset_count > 0 =>
            /\ 0 <= inst.current_preset /\ inst.current_preset < inst.preset_count
            /\ inst.sfont_id >= 0
            /\ inst.presets = PresetEntries(DiskFile(inst.soundfont_path, dir).presets, << >>)
       /\ inst.preset_count = 0 => inst.current_preset = 0
       /\ ProgramSelects # {} =>
            /\ inst.preset_count > 0
            /\ LET last == cmds[CHOOSE i \in ProgramSelects : \A j \in ProgramSelects : j <= i]
                   entry == inst.presets[inst.current_preset + 1]
               IN last = fluid_synth_program_select(0, inst.sfont_id, entry.bank, entry.program)
  /\ load.at \in {"sfload", "build"} => inst.preset_count = 0 /\ inst.current_preset = 0

\* A load failed over a bank whose third preset was current.
C18_Witness ==
  /\ Loads(cmds) /\ cmds[1].c = "sfunload"
  /\ inst.sfont_id < 0 /\ inst.preset_count = 0 /\ inst.current_preset = 0
  /\ inst.soundfont_path = CatalogPath("Bass.sf2") /\ inst.preset_name = "Bass 2"

\* C19: a handler that loads a bank while a voice is held calls all-notes-off
\* before the first program-select of the new bank.
C19_BankSwitchMutes ==
  [][ /\ op'.api = "set_param" /\ voices = "held"
      /\ Loads(cmds') /\ inst'.sfont_id >= 0 /\ inst'.preset_count > 0
      => \E i \in 1..Len(cmds') :
            /\ cmds'[i] = AllNotesOff
            /\ \A j \in 1..i : cmds'[j].c # "program_select" ]_vars

\* C20: whenever the catalog is not empty and a bank is loaded, soundfont_index
\* is inside the catalog and the entry there bears the loaded bank's name.
C20_CatalogMatchesLoadedBank ==
  inst.soundfont_count > 0 /\ inst.sfont_id >= 0 =>
    /\ 0 <= inst.soundfont_index /\ inst.soundfont_index < inst.soundfont_count
    /\ inst.soundfonts[inst.soundfont_index + 1].name = inst.soundfont_name

\* The same, in the states a rescan leaves.
C20_AfterRescan ==
  op.api = "get_param" /\ op.key = "soundfont_list" => C20_CatalogMatchesLoadedBank

\* The last load the last handler attempted failed.
LastLoadFailed(c, d) ==
  LET loads == {i \in 1..Len(c) : c[i].c = "sfload"}
      last == CHOOSE i \in loads : \A j \in loads : j <= i
  IN ~DiskFile(c[last].path, d).ok

C22_NoteTranslation ==
  [][ op'.api = "on_midi" =>
        LET msg == op'.val
        IN IF Len(msg) < 2
           THEN inst' = inst /\ voices' = voices /\ cmds' = << >>
           ELSE LET status == msg[1] - (msg[1] % 16)
                    channel == msg[1] % 16
                    velocity == IF Len(msg) > 2 THEN msg[3] ELSE 0
                    shifted == msg[2] + 12 * inst.octave_transpose
                    sent == IF shifted > 127 THEN 127 ELSE IF shifted < 0 THEN 0 ELSE shifted
                IN status \in {128, 144} /\ msg[2] <= 127 =>
                     /\ inst.octave_transpose \in -4..4
                     /\ inst' = inst
                     /\ cmds' = << IF status = 144 /\ velocity > 0
                                   THEN fluid_synth_noteon(channel, sent, velocity)
                                   ELSE fluid_synth_noteoff(channel, sent) >> ]_vars

\* Note 127 on channel 9, four octaves up, reached the engine as note 127.
C22_Witness ==
  /\ op.api = "on_midi" /\ op.val = <<153, 127, 100>>
  /\ inst.octave_transpose = 4
  /\ cmds = << fluid_synth_noteon(9, 127, 100) >>

\* Note 0, four octaves down, reached the engine as note 0.
C22_WitnessLow ==
  /\ op.api = "on_midi" /\ op.val = <<144, 0, 100>>
  /\ inst.octave_transpose = -4
  /\ cmds = << fluid_synth_noteon(0, 0, 100) >>

\* C23: creation over a catalog that is not empty loads the entry whose path
\* is the soundfont_path hint, else the entry whose name is the file name of
\* the hint, else (no such entry, or no hint) entry 0, and leaves
\* soundfont_index at that entry; over an empty catalog it loads the hint as
\* a path, or <module_dir>/instrument.sf2 when there is no hint.  The instance
\* is live in every case, with load_error set when that load failed.
C23_DefaultBankResolution ==
  op.api = "create_instance" =>
    LET hint == op.val.soundfont_path
        has_hint == op.val.has_path /\ hint # << >>
        entries == 1..inst.soundfont_count
        by_path == {i \in entries : has_hint /\ inst.soundfonts[i].path = hint}
        by_name == {i \in entries : has_hint /\ inst.soundfonts[i].name = Basename(hint)}
        entry == IF by_path # {} THEN CHOOSE i \in by_path : \A j \in by_path : i <= j
                 ELSE IF by_name # {} THEN CHOOSE i \in by_name : \A j \in by_name : i <= j
                 ELSE 1
        path == IF inst.soundfont_count > 0 THEN inst.soundfonts[entry].path
                ELSE IF has_hint THEN hint
                ELSE module_dir \o <<"instrument.sf2">>
    IN /\ inst.synth
       /\ cmds[1] = fluid_synth_sfload(path)
       /\ \A i \in 2..Len(cmds) : cmds[i].c # "sfload"
       /\ inst.soundfont_count > 0 => inst.soundfont_index = entry - 1
       /\ IF DiskFile(path, dir).ok
          THEN inst.load_error = NoError /\ inst.soundfont_path = path
          ELSE inst.load_error # NoError /\ inst.sfont_id < 0

\* The hint was a bare file name, and the entry of that name, not entry 0, was loaded.
C23_Witness ==
  /\ op.api = "create_instance" /\ op.val.has_path /\ op.val.soundfont_path = <<"Lead.SF2">>
  /\ inst.soundfont_index > 0 /\ inst.soundfont_name = "Lead.SF2" /\ inst.sfont_id >= 0

\* No catalog and no hint: the instance lives, with the load error set.
C23_WitnessNoBank ==
  /\ op.api = "create_instance" /\ ~op.val.has_path
  /\ inst.soundfont_count = 0 /\ inst.synth /\ inst.load_error = LoadError
  /\ cmds = << fluid_synth_sfload(module_dir \o <<"instrument.sf2">>) >>

\* C24: the catalog never holds more than MAX_SOUNDFONTS entries nor the
\* preset list more than MAX_PRESETS, the indexes used on them stay inside
\* those arrays, and a render call touches left_buf and right_buf only below
\* index MOVE_FRAMES_PER_BLOCK, whatever frame count the host passed.
C24_BoundedStorage ==
  /\ inst.soundfont_count <= MAX_SOUNDFONTS /\ Len(inst.soundfonts) = inst.soundfont_count
  /\ inst.preset_count <= MAX_PRESETS /\ Len(inst.presets) = inst.preset_count
  /\ 0 <= inst.soundfont_index /\ inst.soundfont_index < MAX_SOUNDFONTS
  /\ 0 <= inst.current_preset /\ inst.current_preset < MAX_PRESETS
  /\ out.last < MOVE_FRAMES_PER_BLOCK

\* The part of C24 that is about the two counts and indexes alone.
C24_CountsBounded ==
  /\ inst.soundfont_count <= MAX_SOUNDFONTS /\ Len(inst.soundfonts) = inst.soundfont_count
  /\ inst.preset_count <= MAX_PRESETS /\ Len(inst.presets) = inst.preset_count
  /\ 0 <= inst.soundfont_index /\ inst.soundfont_index < MAX_SOUNDFONTS
  /\ 0 <= inst.current_preset /\ inst.current_preset < MAX_PRESETS

====
